---- MODULE Spec2Model ----
(***************************************************************************)
(* A model of the Mental-Poker repository: the ElGamal-style cipher, the   *)
(* parameter generator, the card codec and the deck protocol of            *)
(* src/mental_poker_crypto.py.                                             *)
(*                                                                         *)
(* Python values are tagged records, because the code hands tuples to      *)
(* integer arithmetic (and integers to tuple unpacking) and what Python    *)
(* does then decides several properties.  Random draws (random.randint,    *)
(* random.shuffle) are inputs of the actions.                              *)
(***************************************************************************)
EXTENDS Integers, Sequences, FiniteSets, TLC

VARIABLES
    p,            \* MentalPokerCrypto.p
    g,            \* MentalPokerCrypto.g (0: find_generator not yet called)
    keys,         \* key pairs returned by generate_keypair, in call order
    msg,          \* the integer handed to the first encrypt call (0: none yet)
    val,          \* the Python value the calls have produced so far
    ops,          \* the cipher calls made on val, in order
    bit_length,   \* MentalPokerCrypto.bit_length
    gen_pc,       \* position of the constructor / generate_safe_prime
    tries,        \* iterations of the while True loop started (capped)
    cand,         \* the locals q, p of generate_safe_prime and p, g of find_generator
    card_mapping, \* CardEncoder.card_mapping: insertion-ordered label -> code
    codec_call,   \* the last card_to_number / number_to_card call and result
    deck,         \* the protocol's current deck (a Python list or an exception)
    pc,           \* position of the protocol run
    shuffled,     \* participants that have completed a shuffle pass, in order
    revealed,     \* what decrypt_card returned
    deck_arg,     \* the list passed to the last shuffle pass, as the pass left it
    prime_call,   \* one is_prime call: its arguments, progress and result
    cards,        \* Deck.cards
    dealt,        \* the cards deal has returned since the last reset, in order
    deck_call,    \* the last Deck method called and what it returned
    players,      \* PokerServer.players: the ids of the open connections
    games,        \* PokerServer.games: game number -> game dictionary
    game_counter, \* PokerServer.game_counter
    clients,      \* the PokerClient of each id handed out: game_id, my_turn
    hands,        \* per game number, the start_game calls made so far
    handled,      \* the last message the server processed and its answer
    table,        \* a showdown: the players with hand and folded flag, the board
    best_players, \* what the winner determination returned
    winner_call   \* which winner determination ran ("none": not yet)

vars == <<p, g, keys, msg, val, ops, bit_length, gen_pc, tries, cand,
          card_mapping, codec_call, deck, pc, shuffled, revealed, deck_arg,
          prime_call, cards, dealt, deck_call,
          players, games, game_counter, clients, hands, handled,
          table, best_players, winner_call>>

cipherVars == <<p, g, keys, msg, val, ops>>
paramVars  == <<bit_length, gen_pc, tries, cand>>
codecVars  == <<card_mapping, codec_call>>
deckVars   == <<deck, pc, shuffled, revealed, deck_arg>>
utilVars   == <<prime_call, cards, dealt, deck_call>>
serverVars == <<players, games, game_counter, clients, hands, handled>>
showdownVars == <<table, best_players, winner_call>>

-----------------------------------------------------------------------------
(* Bounds of the model.                                                    *)

\* Moduli of the cipher harness are the safe primes up to MaxP.
MaxP == 7
\* Participants (key pairs) of a cipher session or protocol run.
MaxPlayers == 2
\* re_encrypt calls made on one value.
MaxReEncrypts == 1
\* Bit lengths handed to the constructor are 1..MaxBits.
MaxBits == 10
\* Iterations of generate_safe_prime's loop that are counted.
MaxTries == 6
\* Moduli handed to find_generator on its own are 3..MaxGenP.
MaxGenP == 60
\* is_prime calls of one generate_card_mapping run in which every round
\* draws a base that lets a composite pass.
MaxFalsePositives == 1
\* Private keys drawn in a protocol run are 2..MaxKey.
MaxKey == 3
\* The draw sequences of one protocol call are numbered 0..MaxSeed.
MaxSeed == 1
\* shuffle_encrypted_deck calls made on one deck.
MaxShuffles == 2
\* Numbers handed to is_prime on its own are -1..MaxPrimeArg.
MaxPrimeArg == 13
\* Round counts k handed to is_prime on its own are 0..MaxRoundCount.
MaxRoundCount == 2
\* Counts handed to Deck.deal are -1..MaxDeal.
MaxDeal == 3
\* Deck.shuffle calls are followed on decks of at most MaxShuffleLen cards.
MaxShuffleLen == 3

-----------------------------------------------------------------------------
(* Python values and the operations the code applies to them.              *)

PyInt(n) == [t |-> "int", n |-> n, s |-> <<>>]

PyTuple(s) == [t |-> "tuple", n |-> 0, s |-> s]

PyList(s) == [t |-> "list", n |-> 0, s |-> s]

\* A raised exception, propagating out of every enclosing call.
PyRaise(e) == [t |-> e, n |-> 0, s |-> <<>>]

IsInt(v) == v.t = "int"

IsExc(v) == v.t \notin {"int", "tuple", "list"}

\* s repeated n times: what tuple * int is in Python (empty for n <= 0).
Repeat(s, n) ==
    IF n <= 0 THEN <<>>
    ELSE [i \in 1..(Len(s) * n) |-> s[((i - 1) % Len(s)) + 1]]

\* message * n: integer product, or tuple repetition when message is a tuple.
PyMul(v, n) ==
    IF IsExc(v) THEN v
    ELSE IF IsInt(v) THEN PyInt(v.n * n)
    ELSE PyTuple(Repeat(v.s, n))

\* value % m: defined for integers; tuple % int raises TypeError.
PyMod(v, m) ==
    IF IsExc(v) THEN v
    ELSE IF IsInt(v) THEN PyInt(v.n % m)
    ELSE PyRaise("TypeError")

\* a, b = ciphertext: an int is not iterable (TypeError); a tuple of another
\* length does not unpack into two names (ValueError).
Unpack2(v) ==
    IF IsExc(v) THEN v
    ELSE IF IsInt(v) THEN PyRaise("TypeError")
    ELSE IF Len(v.s) # 2 THEN PyRaise("ValueError")
    ELSE v

\* pow(b, e, m) for e >= 0, by square and multiply.
RECURSIVE ModPow(_, _, _)
ModPow(b, e, m) ==
    IF e = 0 THEN 1 % m
    ELSE LET h == ModPow(b, e \div 2, m)
         IN  IF e % 2 = 0 THEN (h * h) % m ELSE (((h * h) % m) * b) % m

\* n.bit_length() for n >= 0.
RECURSIVE BitLength(_)
BitLength(n) == IF n = 0 THEN 0 ELSE 1 + BitLength(n \div 2)

\* Primality by trial division: what sympy.nextprime decides exactly in this range.
IsPrimeNat(n) == n >= 2 /\ \A d \in 2..(n - 1) : d * d > n \/ n % d # 0

\* sympy.nextprime(n): the smallest prime greater than n.
RECURSIVE nextprime(_)
nextprime(n) == IF IsPrimeNat(n + 1) THEN n + 1 ELSE nextprime(n + 1)

IsSafePrime(n) == IsPrimeNat(n) /\ n >= 5 /\ IsPrimeNat((n - 1) \div 2)

-----------------------------------------------------------------------------
(* MentalPokerCrypto.is_prime: Miller-Rabin with the bases as an input.    *)

\* The default round count k.
Rounds == 40

\* d of n - 1 = 2^r * d (the while loop of lines 55-57).
RECURSIVE OddPart(_)
OddPart(d) == IF d % 2 = 0 THEN OddPart(d \div 2) ELSE d

\* r of n - 1 = 2^r * d.
RECURSIVE TwoExponent(_)
TwoExponent(d) == IF d % 2 = 0 THEN 1 + TwoExponent(d \div 2) ELSE 0

\* The inner for loop: square up to left times; TRUE when n - 1 is reached
\* (break), FALSE when the loop runs out (the else branch returns False).
RECURSIVE SquaresReach(_, _, _)
SquaresReach(x, n, left) ==
    IF left <= 0 THEN FALSE
    ELSE LET x2 == (x * x) % n
         IN  IF x2 = n - 1 THEN TRUE ELSE SquaresReach(x2, n, left - 1)

\* A round without the inner squaring loop.
RoundPasses_NoSquaring(n, a) ==
    LET x == ModPow(a, OddPart(n - 1), n)
    IN  x = 1 \/ x = n - 1

\* One round with base a: TRUE when the round does not return False.
RoundPasses(n, a) ==
    LET d == OddPart(n - 1)
        r == TwoExponent(n - 1)
        x == ModPow(a, d, n)
    IN  x = 1 \/ x = n - 1 \/ SquaresReach(x, n, r - 1)

\* is_prime(n, k) with bases[i] the value randint(2, n - 2) returns in round i
\* (k = Len(bases)); the base cases draw nothing.
is_prime(n, bases) ==
    IF n = 2 \/ n = 3 THEN TRUE
    ELSE IF n <= 1 \/ n % 2 = 0 THEN FALSE
    ELSE \A i \in 1..Len(bases) : RoundPasses(n, bases[i])

\* The draw in which all k rounds return the base a.
ConstantDraw(a) == [i \in 1..Rounds |-> a]

\* What is_prime(n) can return, over the draws in which every round draws
\* the same base (a mixed draw returns False as soon as one base fails).
IsPrimeOutcomes(n) ==
    IF n <= 4 \/ n % 2 = 0 THEN {is_prime(n, <<>>)}
    ELSE {is_prime(n, ConstantDraw(a)) : a \in 2..(n - 2)}

-----------------------------------------------------------------------------
(* MentalPokerCrypto: generator search, key pairs, the cipher.            *)

\* A factor list that forgets the factor 2 of p - 1.
factors_only_q(P) == <<(P - 1) \div 2>>

\* factors = [2, (p - 1) // 2]
factors(P) == <<2, (P - 1) \div 2>>

\* all(pow(g, (p - 1) // f, p) != 1 for f in factors)
PassesFactorTest(gc, P) ==
    \A i \in 1..Len(factors(P)) : ModPow(gc, (P - 1) \div factors(P)[i], P) # 1

\* The first g of range(lo, P) passing the test, 2 when none does.
RECURSIVE GeneratorFrom(_, _)
GeneratorFrom(lo, P) ==
    IF lo >= P THEN 2
    ELSE IF PassesFactorTest(lo, P) THEN lo
    ELSE GeneratorFrom(lo + 1, P)

find_generator(P) == GeneratorFrom(2, P)

\* A key pair whose public part is g * x instead of g^x.
KeyPair_Product(x) == [x |-> x, y |-> (g * x) % p]

\* generate_keypair with randint(2, p - 2) having drawn x.
KeyPair(x) == [x |-> x, y |-> ModPow(g, x, p)]

\* The values randint(2, p - 2) can return.
Exponents == 2..(p - 2)

\* An encrypt that uses the exponent 2 whatever was drawn.
encrypt_fixed_k(message, public_key, k) ==
    LET a == ModPow(g, 2, p)
        b == PyMod(PyMul(message, ModPow(public_key, 2, p)), p)
    IN  IF IsExc(b) THEN b ELSE PyTuple(<<a, b.n>>)

encrypt(message, public_key, k) ==
    LET a == ModPow(g, k, p)
        b == PyMod(PyMul(message, ModPow(public_key, k, p)), p)
    IN  IF IsExc(b) THEN b ELSE PyTuple(<<a, b.n>>)

\* A decrypt that multiplies by a^x instead of its inverse a^(p-1-x).
decrypt_no_inverse(ciphertext, private_key) ==
    LET c == Unpack2(ciphertext)
    IN  IF IsExc(c) THEN c
        ELSE PyInt((c.s[2] * ModPow(c.s[1], private_key, p)) % p)

decrypt(ciphertext, private_key) ==
    LET c == Unpack2(ciphertext)
    IN  IF IsExc(c) THEN c
        ELSE LET inverse == ModPow(c.s[1], p - 1 - private_key, p)
             IN  PyInt((c.s[2] * inverse) % p)

\* A re_encrypt that leaves the first component as it was.
re_encrypt_same_a(ciphertext, public_key, k) ==
    LET c == Unpack2(ciphertext)
    IN  IF IsExc(c) THEN c
        ELSE PyTuple(<<c.s[1], (c.s[2] * ModPow(public_key, k, p)) % p>>)

re_encrypt(ciphertext, public_key, k) ==
    LET c == Unpack2(ciphertext)
    IN  IF IsExc(c) THEN c
        ELSE PyTuple(<<(c.s[1] * ModPow(g, k, p)) % p,
                       (c.s[2] * ModPow(public_key, k, p)) % p>>)

-----------------------------------------------------------------------------
(* CardEncoder: the card mapping and the two lookups.                      *)

\* while len(primes) < 52
NumCards == 52

suits == <<"S", "H", "D", "C">>

ranks == <<"2", "3", "4", "5", "6", "7", "8", "9", "10", "J", "Q", "K", "A">>

\* The bases in [2, n-2] with which a round of is_prime(n) does not return False.
Liars(n) == {a \in 2..(n - 2) : RoundPasses(n, a)}

\* The draw of the call is_prime(n) inside generate_card_mapping: for n in
\* unlucky every round draws the smallest base that lets n pass, otherwise
\* every round draws 2.
DrawFor(n, unlucky) ==
    IF n \in unlucky /\ Liars(n) # {}
    THEN ConstantDraw(CHOOSE a \in Liars(n) : \A b \in Liars(n) : a <= b)
    ELSE ConstantDraw(2)

\* A scan that appends every candidate without asking is_prime.
ScanStep_NoTest(primes, current, unlucky) ==
    IF Len(primes) >= NumCards THEN primes ELSE Append(primes, current)

\* One pass of the while loop of lines 145-148 at candidate current (no
\* effect once 52 numbers have been collected: the loop has ended).
ScanStep(primes, current, unlucky) ==
    IF Len(primes) >= NumCards THEN primes
    ELSE IF is_prime(current, DrawFor(current, unlucky))
         THEN Append(primes, current) ELSE primes

\* The passes for current = lo, lo + 1, ..., hi in this order, ending with
\* the loop.
RECURSIVE ScanRange(_, _, _, _)
ScanRange(primes, lo, hi, unlucky) ==
    IF lo > hi THEN primes
    ELSE IF lo = hi THEN ScanStep(primes, lo, unlucky)
    ELSE LET mid == (lo + hi) \div 2
             left == ScanRange(primes, lo, mid, unlucky)
         IN  IF Len(left) >= NumCards THEN left
             ELSE ScanRange(left, mid + 1, hi, unlucky)

\* Lines 143-148: current runs from 2 until 52 numbers have passed, which
\* happens before NumCards^2 (the n-th prime is below n^2).
ScanPrimes(unlucky) == ScanRange(<<>>, 2, NumCards * NumCards, unlucky)

\* mapping[card] = value on an insertion-ordered dict.
DictSet(mapping, card, value) ==
    IF \E i \in 1..Len(mapping) : mapping[i].card = card
    THEN [i \in 1..Len(mapping) |->
             IF mapping[i].card = card THEN [card |-> card, num |-> value]
             ELSE mapping[i]]
    ELSE Append(mapping, [card |-> card, num |-> value])

\* A loop that never advances prime_idx.
CodeAt_NoAdvance(primes, prime_idx) == primes[1]

\* primes[prime_idx], prime_idx counting the cards assigned so far.
CodeAt(primes, prime_idx) == primes[prime_idx + 1]

\* Lines 154-160: for suit in suits: for rank in ranks, from card number idx on.
RECURSIVE FillMapping(_, _, _)
FillMapping(mapping, primes, idx) ==
    IF idx >= Len(suits) * Len(ranks) THEN mapping
    ELSE LET suit == suits[(idx \div Len(ranks)) + 1]
             rank == ranks[(idx % Len(ranks)) + 1]
             assigned == DictSet(mapping, rank \o suit, CodeAt(primes, idx))
         IN  \* the assignment is carried out before the next pass starts
             IF Len(assigned) = 0 THEN assigned
             ELSE FillMapping(assigned, primes, idx + 1)

generate_card_mapping(unlucky) ==
    LET primes == ScanPrimes(unlucky)
    IN  \* the while loop has ended before the first assignment
        IF Len(primes) = 0 THEN <<>> ELSE FillMapping(<<>>, primes, 0)

\* A lookup with a default: get(card, 0) answers 0 for a label that is no key.
card_to_number_default(card) ==
    IF \E i \in 1..Len(card_mapping) : card_mapping[i].card = card
    THEN [found |-> TRUE,
          num |-> card_mapping[CHOOSE i \in 1..Len(card_mapping) :
                                  card_mapping[i].card = card].num]
    ELSE [found |-> TRUE, num |-> 0]

\* self.card_mapping.get(card): None when the label is no key.
card_to_number(card) ==
    IF \E i \in 1..Len(card_mapping) : card_mapping[i].card = card
    THEN [found |-> TRUE,
          num |-> card_mapping[CHOOSE i \in 1..Len(card_mapping) :
                                   card_mapping[i].card = card].num]
    ELSE [found |-> FALSE, num |-> 0]

\* A reverse lookup that answers with the nearest code at or below number.
number_to_card_floor(number) ==
    LET hits == {i \in 1..Len(card_mapping) : card_mapping[i].num <= number}
    IN  IF hits = {} THEN [found |-> FALSE, card |-> ""]
        ELSE [found |-> TRUE,
              card |-> card_mapping[CHOOSE i \in hits : \A j \in hits : j <= i].card]

\* The scan of card_mapping.items(): the first item whose value is number.
number_to_card(number) ==
    LET hits == {i \in 1..Len(card_mapping) : card_mapping[i].num = number}
    IN  IF hits = {} THEN [found |-> FALSE, card |-> ""]
        ELSE [found |-> TRUE,
              card |-> card_mapping[CHOOSE i \in hits : \A j \in hits : i <= j].card]

-----------------------------------------------------------------------------
(* Values the variables of the other parts keep while one part runs.       *)

NoCall == [op |-> "none", label |-> "", number |-> 0, found |-> FALSE]

ParamIdle == bit_length = 0 /\ gen_pc = "idle" /\ tries = 0 /\ cand = [q |-> 0, p |-> 0, g |-> 0]

CodecIdle == card_mapping = <<>> /\ codec_call = NoCall

NoReveal == [order |-> "none", result |-> ""]

DeckIdle ==
    /\ deck = PyList(<<>>) /\ pc = "idle" /\ shuffled = <<>>
    /\ revealed = NoReveal /\ deck_arg = PyList(<<>>)

NoPrimeCall == [n |-> 0, k |-> 0, round |-> 0, a |-> 0, drawn |-> 0, result |-> "none"]

NoDeckCall == [op |-> "none", count |-> 0, raised |-> FALSE, hand |-> <<>>]

\* No message processed yet.
NoMessage == [player_id |-> 0, type |-> "none", reply |-> ""]

\* The server and client variables while another component is looked at.
ServerIdle ==
    /\ players = {} /\ games = <<>> /\ game_counter = 0
    /\ clients = <<>> /\ hands = <<>> /\ handled = NoMessage

\* No showdown set up.
NoTable == [players |-> <<>>, community_cards |-> {}]

\* The showdown variables while another component is looked at.
ShowdownIdle == table = NoTable /\ best_players = <<>> /\ winner_call = "none"

UtilIdle ==
    /\ prime_call = NoPrimeCall
    /\ cards = <<>> /\ dealt = <<>> /\ deck_call = NoDeckCall

-----------------------------------------------------------------------------
(* The cipher on one value: an object whose p is a safe prime, g found by  *)
(* find_generator, key pairs of the participants, then encrypt, decrypt    *)
(* and re_encrypt calls on the value, each with its own random draw.       *)

SafePrimes == {n \in 5..MaxP : IsSafePrime(n)}

InitCipher ==
    /\ p \in SafePrimes
    /\ g = 0
    /\ keys = <<>>
    /\ msg = 0
    /\ val = PyInt(0)
    /\ ops = <<>>
    /\ ParamIdle /\ CodecIdle /\ DeckIdle /\ UtilIdle /\ ServerIdle /\ ShowdownIdle

OthersUnchanged == UNCHANGED <<paramVars, codecVars, deckVars, utilVars, serverVars, showdownVars>>

\* How many calls of one kind the value has been through.
Count(kind) == Cardinality({j \in 1..Len(ops) : ops[j].op = kind})

\* generate_parameters, line 32: the generator of the object's p.
FindGenerator ==
    /\ g = 0
    /\ g' = find_generator(p)
    /\ UNCHANGED <<p, keys, msg, val, ops>>
    /\ OthersUnchanged

GenerateKeypair ==
    /\ g # 0
    /\ msg = 0
    /\ Len(keys) < MaxPlayers
    /\ \E x \in Exponents : keys' = Append(keys, KeyPair(x))
    /\ UNCHANGED <<p, g, msg, val, ops>>
    /\ OthersUnchanged

\* The caller picks the value to protect: a message in [1, p-1].
ChooseMessage ==
    /\ keys # <<>>
    /\ msg = 0
    /\ \E m \in 1..(p - 1) : msg' = m /\ val' = PyInt(m)
    /\ UNCHANGED <<p, g, keys, ops>>
    /\ OthersUnchanged

\* The inner loop of prepare_encrypted_deck: the next public key of the list
\* is applied to what the previous encrypt call returned.
Encrypt ==
    /\ msg # 0 /\ ~IsExc(val)
    /\ Count("encrypt") = Len(ops)
    /\ Len(ops) < Len(keys)
    /\ \E k \in Exponents :
          /\ val' = encrypt(val, keys[Len(ops) + 1].y, k)
          /\ ops' = Append(ops, [op |-> "encrypt", who |-> Len(ops) + 1])
    /\ UNCHANGED <<p, g, keys, msg>>
    /\ OthersUnchanged

\* One entry's part of shuffle_encrypted_deck: any participant's public key.
ReEncrypt ==
    /\ msg # 0 /\ ~IsExc(val)
    /\ Count("encrypt") >= 1
    /\ Count("decrypt") = 0
    /\ Count("re_encrypt") < MaxReEncrypts
    /\ \E i \in 1..Len(keys), k \in Exponents :
          /\ val' = re_encrypt(val, keys[i].y, k)
          /\ ops' = Append(ops, [op |-> "re_encrypt", who |-> i])
    /\ UNCHANGED <<p, g, keys, msg>>
    /\ OthersUnchanged

\* One iteration of decrypt_card's loop (or partial_decrypt): any private key,
\* at most as many calls as encrypt calls were made.
Decrypt ==
    /\ msg # 0 /\ ~IsExc(val)
    /\ Count("decrypt") < Count("encrypt")
    /\ \E i \in 1..Len(keys) :
          /\ val' = decrypt(val, keys[i].x)
          /\ ops' = Append(ops, [op |-> "decrypt", who |-> i])
    /\ UNCHANGED <<p, g, keys, msg>>
    /\ OthersUnchanged

NextCipher ==
    \/ FindGenerator
    \/ GenerateKeypair
    \/ ChooseMessage
    \/ Encrypt
    \/ ReEncrypt
    \/ Decrypt

SpecCipher == InitCipher /\ [][NextCipher]_vars

-----------------------------------------------------------------------------
(* Properties of the cipher on one value.                                  *)

OpIs(j, kind, who) == j <= Len(ops) /\ ops[j].op = kind /\ ops[j].who = who

\* C1: decrypt(encrypt(m, y), x) = m for every message m in [1, p-1], every
\* key pair (x, y) and every ephemeral exponent k drawn from [2, p-2].
C1_RoundTrip ==
    (Len(ops) = 2 /\ OpIs(1, "encrypt", 1) /\ OpIs(2, "decrypt", 1))
        => val = PyInt(msg)

\* An encrypt call followed by decrypt with the matching key has returned.
C1_Witness ==
    /\ Len(ops) = 2 /\ OpIs(1, "encrypt", 1) /\ OpIs(2, "decrypt", 1)
    /\ p = 7 /\ msg > 1 /\ IsInt(val)

\* The calls so far are those of a layered round trip over all N key pairs:
\* encrypt under keys 1..N in list order, then decrypt with keys N..1.
IsLayeredRun ==
    LET N == Len(keys)
    IN  /\ Len(ops) >= 1
        /\ \A j \in 1..Len(ops) :
              IF j <= N THEN OpIs(j, "encrypt", j)
              ELSE OpIs(j, "decrypt", 2 * N + 1 - j)

\* C2: for N >= 2 key pairs, encrypting m under each public key in list order
\* and then decrypting with the private keys in reverse order returns m, and
\* every encrypt and decrypt call on the way completes normally.
C2_LayeredRoundTrip ==
    (Len(keys) >= 2 /\ IsLayeredRun)
        => /\ ~IsExc(val)
           /\ Len(ops) = 2 * Len(keys) => val = PyInt(msg)

\* C8: re_encrypt with any participant's public key y2 leaves the key needed
\* to decrypt unchanged: decrypt(re_encrypt(encrypt(m, y), y2), x) = m.
C8_ReEncryptKeepsKey ==
    (Len(ops) = 3 /\ OpIs(1, "encrypt", 1) /\ ops[2].op = "re_encrypt"
        /\ OpIs(3, "decrypt", 1))
        => val = PyInt(msg)

\* The calls so far are those of a forward-order reveal over all N key pairs:
\* encrypt under keys 1..N in list order, then decrypt with keys 1..N.
IsForwardRun ==
    LET N == Len(keys)
    IN  /\ Len(ops) >= 1
        /\ \A j \in 1..Len(ops) :
              IF j <= N THEN OpIs(j, "encrypt", j)
              ELSE OpIs(j, "decrypt", j - N)

IsReEncryptStep ==
    /\ Len(ops') = Len(ops) + 1
    /\ ops'[Len(ops')].op = "re_encrypt"

\* C21 as stated: re_encrypt((a, b), y) returns (a2, b2) with a2 # a and
\* b2 # b, for every participant key y and every k in [2, p-2].
C21_BothChange ==
    [][IsReEncryptStep => (val'.s[1] # val.s[1] /\ val'.s[2] # val.s[2])]_vars

\* C21 amended: a2 # a always; b2 = b exactly when the drawn k has
\* y^k mod p = 1 (k a multiple of the order of y).
C21_FirstChanges ==
    [][IsReEncryptStep =>
          /\ val'.s[1] # val.s[1]
          /\ (val'.s[2] = val.s[2]) <=>
                \E k \in Exponents :
                   /\ val'.s[1] = (val.s[1] * ModPow(g, k, p)) % p
                   /\ ModPow(keys[ops'[Len(ops')].who].y, k, p) = 1]_vars

\* A re_encrypt call has returned for p = 7 under a key of order 3.
C21_Witness ==
    /\ Len(ops) = 2 /\ ops[2].op = "re_encrypt"
    /\ p = 7 /\ ~IsExc(val)
    /\ ModPow(keys[ops[2].who].y, 3, p) = 1

\* C22: two encrypt calls with the same message and public key that draw
\* different exponents return different ciphertexts: the ciphertext an
\* encrypt call has returned is returned for one drawn k only.
C22_FreshCiphertext ==
    (Len(ops) = 1 /\ OpIs(1, "encrypt", 1))
        => /\ \A k1, k2 \in Exponents :
                 k1 # k2 => encrypt(PyInt(msg), keys[1].y, k1)
                               # encrypt(PyInt(msg), keys[1].y, k2)
           /\ Cardinality({k \in Exponents :
                              encrypt(PyInt(msg), keys[1].y, k) = val}) = 1

\* encrypt has returned a ciphertext for p = 7, where four exponents can
\* be drawn.
C22_Witness ==
    /\ Len(ops) = 1 /\ OpIs(1, "encrypt", 1)
    /\ p = 7 /\ ~IsExc(val) /\ ~IsInt(val)
    /\ Cardinality(Exponents) = 4

\* C12: every key pair generate_keypair has returned has 2 <= x <= p - 2 and
\* y = g^x mod p, so equal private keys come with equal public keys.
C12_KeyPairShape ==
    /\ \A i \in 1..Len(keys) :
          /\ 2 <= keys[i].x /\ keys[i].x <= p - 2
          /\ keys[i].y = (g ^ keys[i].x) % p
    /\ \A i, j \in 1..Len(keys) : keys[i].x = keys[j].x => keys[i].y = keys[j].y

\* Two participants hold key pairs with different private keys.
C12_Witness ==
    /\ Len(keys) = 2 /\ keys[1].x # keys[2].x
    /\ g = find_generator(p) /\ p = 7

-----------------------------------------------------------------------------
(* The constructor: __init__ -> generate_parameters -> generate_safe_prime. *)

RECURSIVE Pow2(_)
Pow2(n) == IF n <= 0 THEN 1 ELSE 2 * Pow2(n - 1)

CipherUnset == p = 0 /\ g = 0 /\ keys = <<>> /\ msg = 0 /\ val = PyInt(0) /\ ops = <<>>

InitParams ==
    /\ bit_length \in 1..MaxBits
    /\ gen_pc = "init"
    /\ tries = 0
    /\ cand = [q |-> 0, p |-> 0, g |-> 0]
    /\ CipherUnset /\ CodecIdle /\ DeckIdle /\ UtilIdle /\ ServerIdle /\ ShowdownIdle

ParamsFrame == UNCHANGED <<cipherVars, codecVars, deckVars, utilVars, serverVars, showdownVars>>

\* __init__ stores bit_length and calls generate_parameters.
Construct ==
    /\ gen_pc = "init"
    /\ gen_pc' = "generate_parameters"
    /\ UNCHANGED <<bit_length, tries, cand>>
    /\ ParamsFrame

\* generate_parameters calls generate_safe_prime(self.bit_length).
GenerateParameters ==
    /\ gen_pc = "generate_parameters"
    /\ gen_pc' = "loop"
    /\ UNCHANGED <<bit_length, tries, cand>>
    /\ ParamsFrame

\* Lines 41-42: the candidate of one iteration of while True.
PickCandidate ==
    /\ gen_pc = "loop"
    /\ LET q == nextprime(Pow2(bit_length - 1))
       IN  cand' = [q |-> q, p |-> 2 * q + 1, g |-> 0]
    /\ tries' = IF tries < MaxTries THEN tries + 1 ELSE tries
    /\ gen_pc' = "test"
    /\ UNCHANGED bit_length
    /\ ParamsFrame

\* Line 43: p.bit_length() == bit_length and self.is_prime(p); is_prime is
\* called only when the bit lengths agree.
TestCandidate ==
    /\ gen_pc = "test"
    /\ \E accepted \in (IF BitLength(cand.p) = bit_length
                        THEN IsPrimeOutcomes(cand.p) ELSE {FALSE}) :
          gen_pc' = IF accepted THEN "returned" ELSE "loop"
    /\ UNCHANGED <<bit_length, tries, cand>>
    /\ ParamsFrame

NextParams ==
    \/ Construct
    \/ GenerateParameters
    \/ PickCandidate
    \/ TestCandidate

SpecParams == InitParams /\ [][NextParams]_vars

\* The interpreter keeps executing the loop: no step is postponed forever.
SpecParamsFair == SpecParams /\ WF_vars(NextParams)

\* C5: for every configured bit length generate_safe_prime eventually accepts
\* a candidate and returns.
C5_SafePrimeTerminates == <>(gen_pc = "returned")

-----------------------------------------------------------------------------
(* find_generator on its own, one candidate of range(2, p) per step.       *)

InitGenerator ==
    /\ \E P \in 3..MaxGenP : cand = [q |-> 0, p |-> P, g |-> 2]
    /\ gen_pc = "find_generator"
    /\ bit_length = 0 /\ tries = 0
    /\ CipherUnset /\ CodecIdle /\ DeckIdle /\ UtilIdle /\ ServerIdle /\ ShowdownIdle

\* One iteration of for g in range(2, p): return g when it passes the test.
TryGenerator ==
    /\ gen_pc = "find_generator"
    /\ cand.g < cand.p
    /\ IF PassesFactorTest(cand.g, cand.p)
       THEN gen_pc' = "found" /\ cand' = cand
       ELSE gen_pc' = gen_pc /\ cand' = [cand EXCEPT !.g = cand.g + 1]
    /\ UNCHANGED <<bit_length, tries>>
    /\ ParamsFrame

\* Line 81: the range is exhausted and 2 is returned.
GeneratorFallback ==
    /\ gen_pc = "find_generator"
    /\ cand.g >= cand.p
    /\ gen_pc' = "fallback"
    /\ cand' = [cand EXCEPT !.g = 2]
    /\ UNCHANGED <<bit_length, tries>>
    /\ ParamsFrame

\* Lines 34 and 24: self.p, self.g = p, g.
StoreParameters ==
    /\ gen_pc \in {"found", "fallback"}
    /\ p' = cand.p /\ g' = cand.g
    /\ gen_pc' = "constructed"
    /\ UNCHANGED <<keys, msg, val, ops, bit_length, tries, cand>>
    /\ UNCHANGED <<codecVars, deckVars, utilVars, serverVars, showdownVars>>

NextGenerator ==
    \/ TryGenerator
    \/ GeneratorFallback
    \/ StoreParameters

SpecGenerator == InitGenerator /\ [][NextGenerator]_vars

\* The multiplicative order of a modulo n (0 when no power of a is 1).
RECURSIVE OrderFrom(_, _, _, _)
OrderFrom(a, n, e, acc) ==
    IF e > n THEN 0
    ELSE IF acc % n = 1 THEN e
    ELSE OrderFrom(a, n, e + 1, (acc * a) % n)

Order(a, n) == OrderFrom(a, n, 1, a % n)

\* C7: for every safe prime p = 2q + 1 the g find_generator returns satisfies
\* g^((p-1)/f) mod p # 1 for f in {2, q}, and has order p - 1 modulo p.
C7_GeneratorValid ==
    (gen_pc \in {"found", "fallback"} /\ IsSafePrime(cand.p))
        => /\ ModPow(cand.g, (cand.p - 1) \div 2, cand.p) # 1
           /\ ModPow(cand.g, 2, cand.p) # 1
           /\ Order(cand.g, cand.p) = cand.p - 1

\* find_generator has returned for a safe prime whose first candidate failed.
C7_Witness == gen_pc = "found" /\ IsSafePrime(cand.p) /\ cand.p = 23 /\ cand.g = 5

\* C18: when the search range [2, p) is exhausted without a g passing the
\* factor test, parameter generation fails and no (p, g) pair reaches the
\* session: every stored pair has a g that passed the test.
C18_ExhaustionIsFatal ==
    /\ gen_pc # "fallback"
    /\ gen_pc = "constructed" => PassesFactorTest(g, p)

-----------------------------------------------------------------------------
(* The codec: a CardEncoder after construction, then lookups.              *)

\* The largest number the scan can reach: the 52nd prime.
LastCandidate == ScanPrimes({})[NumCards]

\* The odd composites the scan meets that some base lets pass.
LiarComposites ==
    {n \in 5..LastCandidate : n % 2 = 1 /\ ~IsPrimeNat(n) /\ Liars(n) # {}}

RECURSIVE SubsetsUpTo(_, _)
SubsetsUpTo(S, m) ==
    IF m <= 0 THEN {{}}
    ELSE LET prev == SubsetsUpTo(S, m - 1)
         IN  prev \cup {T \cup {x} : T \in prev, x \in S}

UnluckySets == SubsetsUpTo(LiarComposites, MaxFalsePositives)

Labels == {card_mapping[i].card : i \in 1..Len(card_mapping)}

Codes == {card_mapping[i].num : i \in 1..Len(card_mapping)}

\* Labels no card has.
BadLabels == {"1S", "AX", "S10", ""}

InitCodec ==
    /\ \E unlucky \in UnluckySets : card_mapping = generate_card_mapping(unlucky)
    /\ codec_call = NoCall
    /\ CipherUnset /\ ParamIdle /\ DeckIdle /\ UtilIdle /\ ServerIdle /\ ShowdownIdle

CodecFrame == UNCHANGED <<card_mapping, cipherVars, paramVars, deckVars, utilVars, serverVars, showdownVars>>

\* A lookup by label: any label on a fresh encoder, or the label the
\* preceding number_to_card call returned.
CardToNumber ==
    /\ \E card \in (IF codec_call.op = "none" THEN Labels \cup BadLabels
                    ELSE IF codec_call.op = "number_to_card" /\ codec_call.found
                    THEN {codec_call.label} ELSE {}) :
          LET r == card_to_number(card)
          IN  codec_call' = [op |-> "card_to_number", label |-> card,
                             number |-> r.num, found |-> r.found]
    /\ CodecFrame

\* A lookup by number: any number on a fresh encoder, or the number the
\* preceding card_to_number call returned.
NumberToCard ==
    /\ \E number \in (IF codec_call.op = "none" THEN 0..(LastCandidate + 1)
                      ELSE IF codec_call.op = "card_to_number" /\ codec_call.found
                      THEN {codec_call.number} ELSE {}) :
          LET r == number_to_card(number)
          IN  codec_call' = [op |-> "number_to_card", label |-> r.card,
                             number |-> number, found |-> r.found]
    /\ CodecFrame

NextCodec ==
    \/ CardToNumber
    \/ NumberToCard

SpecCodec == InitCodec /\ [][NextCodec]_vars

\* C10: number_to_card(card_to_number(label)) = label for each of the 52
\* labels of the codec, and the 52 codes are pairwise distinct.
C10_CodecBijection ==
    /\ Cardinality(Labels) = NumCards
    /\ Cardinality(Codes) = NumCards
    /\ \A card \in Labels :
          /\ card_to_number(card).found
          /\ number_to_card(card_to_number(card).num) = [found |-> TRUE, card |-> card]
    /\ (codec_call.op = "number_to_card" /\ codec_call.found)
          => card_to_number(codec_call.label) = [found |-> TRUE, num |-> codec_call.number]

\* number_to_card has returned the label of the last card, in a mapping one
\* of whose codes is a composite that passed is_prime.
C10_Witness ==
    /\ codec_call.op = "number_to_card" /\ codec_call.found
    /\ codec_call.label = "AC"
    /\ \E c \in Codes : ~IsPrimeNat(c)

\* C15: card_to_number of a label that is not one of the 52 labels reports
\* not found (None, no number), and the call leaves the mapping unchanged.
C15_UnknownLabel ==
    [][(codec_call'.op = "card_to_number" /\ codec_call'.label \notin Labels)
          => (~codec_call'.found /\ card_mapping' = card_mapping)]_vars

\* card_to_number has been called with a label of no card.
C15_Witness ==
    /\ codec_call.op = "card_to_number"
    /\ codec_call.label = "1S"
    /\ ~codec_call.found
    /\ Len(card_mapping) = NumCards

\* The first 52 primes.
FirstPrimes == {n \in 2..LastCandidate : IsPrimeNat(n)}

\* C11 as stated: the codes are exactly the first 52 primes, whatever bases
\* is_prime draws during the scan.
C11_FirstPrimes == Codes = FirstPrimes

\* C11 amended: the codes are the first 52 numbers from 2 on that is_prime
\* accepts. They increase along the mapping, each is a prime or an odd
\* composite that some base lets pass, no prime below the largest code is
\* skipped, and they are the first 52 primes when no composite passed.
C11_FirstAccepted ==
    LET cs == Codes
    IN  /\ \A i \in 1..(Len(card_mapping) - 1) :
              card_mapping[i].num < card_mapping[i + 1].num
        /\ \A c \in cs : c \in FirstPrimes \/ c \in LiarComposites
        /\ \A n \in FirstPrimes : (\E c \in cs : n < c) => n \in cs
        /\ cs \subseteq FirstPrimes => cs = FirstPrimes

\* A mapping in which the composite 25 is a code and the 52nd prime is not.
C11_Witness ==
    /\ Len(card_mapping) = NumCards
    /\ \E c \in Codes : ~IsPrimeNat(c)
    /\ LastCandidate \notin Codes
    /\ codec_call = NoCall

-----------------------------------------------------------------------------
(* MentalPokerProtocol: the deck operations of a protocol object whose     *)
(* crypto holds a safe prime above every card code and the generator       *)
(* find_generator returns for it, with the encoder's mapping.              *)

\* The smallest safe prime greater than n.
RECURSIVE NextSafePrime(_)
NextSafePrime(n) == IF IsSafePrime(n + 1) THEN n + 1 ELSE NextSafePrime(n + 1)

\* The k-th value random.randint(2, p - 2) returns during a call whose draw
\* sequence is numbered seed.
DrawAt(seed, k) == 2 + ((seed + k) % (p - 3))

Seeds == 0..MaxSeed

\* [player['public_key'] for player in players]
public_keys == [i \in 1..Len(keys) |-> keys[i].y]

\* [player['private_key'] for player in players]
private_keys == [i \in 1..Len(keys) |-> keys[i].x]

Reversed(s) == [i \in 1..Len(s) |-> s[Len(s) + 1 - i]]

\* list(self.encoder.card_mapping.values())
CardValues == [i \in 1..Len(card_mapping) |-> card_mapping[i].num]

\* A list built by appending entries one call at a time: the first call
\* that raises ends the loop and the exception leaves the method.
ListOrRaise(entries) ==
    IF \E i \in 1..Len(entries) : IsExc(entries[i])
    THEN entries[CHOOSE i \in 1..Len(entries) :
                    /\ IsExc(entries[i])
                    /\ \A j \in 1..(i - 1) : ~IsExc(entries[j])]
    ELSE PyList(entries)

\* The inner loop of prepare_encrypted_deck from key number j on; first is
\* the number of the draw the next encrypt call makes.
RECURSIVE EncryptLayers(_, _, _, _, _)
EncryptLayers(encrypted_card, pubs, j, seed, first) ==
    IF j > Len(pubs) \/ IsExc(encrypted_card) THEN encrypted_card
    ELSE EncryptLayers(encrypt(encrypted_card, pubs[j], DrawAt(seed, first)),
                       pubs, j + 1, seed, first + 1)

prepare_encrypted_deck(pubs, seed) ==
    ListOrRaise([i \in 1..Len(CardValues) |->
                    EncryptLayers(PyInt(CardValues[i]), pubs, 1, seed,
                                  (i - 1) * Len(pubs))])

\* The orders random.shuffle leaves the list in that the model follows:
\* unchanged, reversed, rotated by one place.
Orders(n) ==
    { [i \in 1..n |-> i],
      [i \in 1..n |-> n + 1 - i],
      [i \in 1..n |-> (i % n) + 1] }

\* A pass that rearranges the entries without re-encrypting them.
shuffle_only(d, public_key, seed, order) ==
    PyList([i \in 1..Len(d.s) |-> d.s[order[i]]])

\* shuffle_encrypted_deck with random.shuffle leaving entry order[i] of the
\* re-encrypted list at place i.
shuffle_encrypted_deck(d, public_key, seed, order) ==
    LET re_encrypted_deck ==
            ListOrRaise([i \in 1..Len(d.s) |->
                            re_encrypt(d.s[i], public_key, DrawAt(seed, i - 1))])
    IN  IF IsExc(re_encrypted_deck) THEN re_encrypted_deck
        ELSE PyList([i \in 1..Len(d.s) |-> re_encrypted_deck.s[order[i]]])

\* The for loop of decrypt_card from key number j on.
RECURSIVE DecryptLayers(_, _, _)
DecryptLayers(current_card, privs, j) ==
    IF j > Len(privs) \/ IsExc(current_card) THEN current_card
    ELSE DecryptLayers(decrypt(current_card, privs[j]), privs, j + 1)

\* decrypt_card: the label, "None" when number_to_card finds no item, or
\* the name of the exception a decrypt call raised.
decrypt_card(encrypted_card, privs) ==
    LET current_card == DecryptLayers(encrypted_card, privs, 1)
    IN  IF IsExc(current_card) THEN current_card.t
        ELSE IF IsInt(current_card) /\ number_to_card(current_card.n).found
             THEN number_to_card(current_card.n).card
             ELSE "None"

InitProtocol ==
    /\ card_mapping = generate_card_mapping({})
    /\ codec_call = NoCall
    /\ p = NextSafePrime(LastCandidate)
    /\ g = find_generator(NextSafePrime(LastCandidate))
    /\ keys = <<>>
    /\ msg = 0 /\ val = PyInt(0) /\ ops = <<>>
    /\ deck = PyList(<<>>)
    /\ pc = "keys"
    /\ shuffled = <<>>
    /\ revealed = NoReveal
    /\ deck_arg = PyList(<<>>)
    /\ ParamIdle /\ UtilIdle /\ ServerIdle /\ ShowdownIdle

\* A frame in which every call also replaces the generator by its square.
ProtocolFrame_NewGenerator ==
    /\ g' = (g * g) % p
    /\ UNCHANGED <<p, msg, val, ops, paramVars, codecVars, utilVars, serverVars, showdownVars>>

\* What no method of MentalPokerProtocol, and no cipher or encoder method
\* it calls, assigns to.
ProtocolFrame == UNCHANGED <<p, g, msg, val, ops, paramVars, codecVars, utilVars, serverVars, showdownVars>>

\* protocol.crypto.generate_keypair() for the next player of the run.
PlayerKeypair ==
    /\ pc = "keys"
    /\ Len(keys) < MaxPlayers
    /\ \E x \in 2..MaxKey : keys' = Append(keys, KeyPair(x))
    /\ UNCHANGED deckVars
    /\ ProtocolFrame

\* prepare_encrypted_deck(public_keys): the deck, or the exception raised.
PrepareEncryptedDeck ==
    /\ pc = "keys"
    /\ \E seed \in Seeds : deck' = prepare_encrypted_deck(public_keys, seed)
    /\ pc' = IF IsExc(deck') THEN "raised" ELSE "prepared"
    /\ UNCHANGED <<keys, shuffled, revealed, deck_arg>>
    /\ ProtocolFrame

\* current_deck = shuffle_encrypted_deck(current_deck, player['public_key'])
\* by one of the players.
ShuffleEncryptedDeck ==
    /\ pc \in {"prepared", "shuffled"}
    /\ Len(shuffled) < MaxShuffles
    /\ \E i \in 1..Len(keys), seed \in Seeds, order \in Orders(Len(deck.s)) :
          /\ deck' = shuffle_encrypted_deck(deck, keys[i].y, seed, order)
          /\ shuffled' = Append(shuffled, i)
    /\ deck_arg' = deck
    /\ pc' = IF IsExc(deck') THEN "raised" ELSE "shuffled"
    /\ UNCHANGED <<keys, revealed>>
    /\ ProtocolFrame

\* The private-key lists a reveal is attempted with: the players' keys in
\* list order or in the reverse of it, the list without its last key (a
\* missing layer), and the list with its first key replaced by another
\* drawn key (a key of the wrong layer).
RevealKeys(order) ==
    IF order = "forward" THEN {private_keys}
    ELSE IF order = "reverse" THEN {Reversed(private_keys)}
    ELSE IF order = "missing"
         THEN {SubSeq(private_keys, 1, Len(private_keys) - 1)}
    ELSE {[private_keys EXCEPT ![1] = x] :
             x \in {k \in 2..MaxKey : Len(keys) >= 1 /\ k # keys[1].x}}

\* decrypt_card(current_deck[0], private_keys) with one of these key lists.
DecryptCard ==
    /\ pc \in {"prepared", "shuffled"}
    /\ \E order \in {"forward", "reverse", "missing", "wrong"} :
          \E privs \in RevealKeys(order) :
             revealed' = [order |-> order,
                          result |-> decrypt_card(deck.s[1], privs)]
    /\ pc' = IF revealed'.result \in {"TypeError", "ValueError"}
             THEN "raised" ELSE "revealed"
    /\ UNCHANGED <<keys, deck, shuffled, deck_arg>>
    /\ ProtocolFrame

NextProtocol ==
    \/ PlayerKeypair
    \/ PrepareEncryptedDeck
    \/ ShuffleEncryptedDeck
    \/ DecryptCard

SpecProtocol == InitProtocol /\ [][NextProtocol]_vars

\* decrypt_card on every entry of the deck, private keys in reverse order.
RevealAll == [i \in 1..Len(deck.s) |-> decrypt_card(deck.s[i], Reversed(private_keys))]

\* C3: once prepare_encrypted_deck has been called for N >= 1 participants,
\* and after any shuffle passes, a deck exists and revealing all its entries
\* with the N private keys gives each of the 52 labels exactly once.
C3_DeckSetInvariance ==
    (pc \in {"prepared", "shuffled", "raised"} /\ Len(keys) >= 1 /\ revealed = NoReveal)
        => /\ ~IsExc(deck)
           /\ Len(RevealAll) = NumCards
           /\ {RevealAll[i] : i \in 1..Len(RevealAll)} = Labels

\* Each participant has shuffled once, in list order, up to now.
ShuffledInOrder ==
    /\ Len(shuffled) <= Len(keys)
    /\ \A i \in 1..Len(shuffled) : shuffled[i] = i

\* C4: in the run keys, prepare, one shuffle per participant in order,
\* reveal of the first entry with the private keys in reverse order, no
\* step raises and the reveal returns one of the 52 labels.
C4_EndToEnd ==
    (Len(keys) >= 1 /\ ShuffledInOrder)
        => /\ pc # "raised"
           /\ (/\ pc = "revealed"
               /\ revealed.order = "reverse"
               /\ Len(shuffled) = Len(keys))
                  => revealed.result \in Labels

\* C13: a reveal with a missing layer or with a key of the wrong layer
\* raises no error and ends in a not-found lookup.
C13_SilentMiss ==
    (pc \in {"revealed", "raised"} /\ revealed.order \in {"missing", "wrong"}
        /\ Len(keys) >= 1)
        => pc = "revealed" /\ revealed.result = "None"

\* C16: number_to_card(n) is not found for every n that is no registered
\* code and is the one label with code n otherwise; so a label that
\* decrypt_card returns is the label of the value the decrypt calls produced.
C16_ReverseLookup ==
    /\ LET cs == Codes
       IN  \A n \in 0..(p - 1) :
              LET r == number_to_card(n)
              IN  IF n \in cs
                  THEN /\ r.found
                       /\ \A i \in 1..Len(card_mapping) :
                             (card_mapping[i].num = n) <=> (card_mapping[i].card = r.card)
                  ELSE r = [found |-> FALSE, card |-> ""]
    /\ (pc = "revealed" /\ revealed.result # "None")
          => /\ revealed.result \in Labels
             /\ \E privs \in RevealKeys(revealed.order) :
                   DecryptLayers(deck.s[1], privs, 1)
                       = PyInt(card_to_number(revealed.result).num)

\* A reveal with a wrong key has produced a value outside the codes and
\* decrypt_card has returned None.
C16_Witness ==
    /\ pc = "revealed" /\ revealed.order = "wrong" /\ revealed.result = "None"
    /\ \E privs \in RevealKeys("wrong") :
          /\ IsInt(DecryptLayers(deck.s[1], privs, 1))
          /\ DecryptLayers(deck.s[1], privs, 1).n \notin Codes

\* C17: prepare_encrypted_deck returns a deck of 52 entries for any list of
\* public keys, and every shuffle pass returns a deck of the same length.
C17_DeckLength ==
    pc # "keys" => (~IsExc(deck) /\ Len(deck.s) = NumCards)

\* C23: in a run with N >= 1 participants whose shuffle passes so far were
\* made in participant order, prepare_encrypted_deck leaves every card under
\* the N keys applied in list order (peeling the layers from the last key
\* to the first gives the card's code back), and every shuffle pass made
\* on that deck has returned a deck of two-component ciphertexts.
C23_LayeredThenShuffled ==
    (Len(keys) >= 1 /\ pc # "keys" /\ ShuffledInOrder /\ revealed = NoReveal)
        => /\ ~IsExc(deck)
           /\ \A i \in 1..Len(deck.s) :
                 /\ deck.s[i].t = "tuple"
                 /\ Len(deck.s[i].s) = 2
           /\ pc = "prepared"
                 => \A i \in 1..Len(CardValues) :
                       DecryptLayers(deck.s[i], Reversed(private_keys), 1)
                           = PyInt(CardValues[i])

IsShuffleStep == Len(shuffled') = Len(shuffled) + 1

\* C24: a shuffle pass with public key y returns a list in which every
\* place holds re_encrypt under y of the input entry that one bijection of
\* the places assigns to it, and the list that was passed in is as it was.
C24_ShuffleIsRearrangement ==
    [][IsShuffleStep =>
          LET y == keys[shuffled'[Len(shuffled')]].y
              n == Len(deck.s)
          IN  /\ ~IsExc(deck')
              /\ Len(deck'.s) = n
              /\ \E order \in Orders(n) :
                    /\ {order[i] : i \in 1..n} = 1..n
                    /\ \A i \in 1..n : \E seed \in Seeds :
                          deck'.s[i] = re_encrypt(deck.s[order[i]], y,
                                                  DrawAt(seed, order[i] - 1))
              /\ deck_arg' = deck]_vars

\* The first participant's pass has returned the prepared deck re-encrypted
\* and in reverse order.
C24_Witness ==
    /\ pc = "shuffled" /\ shuffled = <<1>> /\ Len(deck.s) = NumCards
    /\ Len(deck_arg.s) = NumCards
    /\ \A i \in 1..NumCards : \E seed \in Seeds :
          deck.s[i] = re_encrypt(deck_arg.s[NumCards + 1 - i], keys[1].y,
                                 DrawAt(seed, NumCards - i))

-----------------------------------------------------------------------------
(* is_prime on its own: one call is_prime(n, k), one round per step.       *)

InitIsPrime ==
    /\ \E n \in (0 - 1)..MaxPrimeArg, k \in 0..MaxRoundCount :
          prime_call = [n |-> n, k |-> k, round |-> 0, a |-> 0, drawn |-> 0,
                        result |-> "called"]
    /\ cards = <<>> /\ dealt = <<>> /\ deck_call = NoDeckCall
    /\ CipherUnset /\ ParamIdle /\ CodecIdle /\ DeckIdle /\ ServerIdle /\ ShowdownIdle

IsPrimeFrame ==
    UNCHANGED <<cipherVars, paramVars, codecVars, deckVars, cards, dealt, deck_call,
                serverVars, showdownVars>>

\* Lines 48-57: the base cases return; otherwise r and d are computed and
\* the loop over the rounds starts.
EnterIsPrime ==
    /\ prime_call.result = "called"
    /\ prime_call' =
          [prime_call EXCEPT !.result =
              IF prime_call.n = 2 \/ prime_call.n = 3 THEN "True"
              ELSE IF prime_call.n <= 1 \/ prime_call.n % 2 = 0 THEN "False"
              ELSE "running"]
    /\ IsPrimeFrame

\* Lines 60-70: one pass of for _ in range(k). random.randint(2, n - 2)
\* raises ValueError on an empty range.
MillerRabinRound ==
    /\ prime_call.result = "running"
    /\ prime_call.round < prime_call.k
    /\ IF 2 > prime_call.n - 2
       THEN prime_call' = [prime_call EXCEPT !.result = "ValueError"]
       ELSE \E a \in 2..(prime_call.n - 2) :
               prime_call' =
                  [prime_call EXCEPT
                      !.a = a,
                      !.drawn = prime_call.drawn + 1,
                      !.round = IF RoundPasses(prime_call.n, a)
                                THEN prime_call.round + 1 ELSE prime_call.round,
                      !.result = IF RoundPasses(prime_call.n, a)
                                 THEN "running" ELSE "False"]
    /\ IsPrimeFrame

\* Line 71: all k rounds passed.
ReturnTrue ==
    /\ prime_call.result = "running"
    /\ prime_call.round = prime_call.k
    /\ prime_call' = [prime_call EXCEPT !.result = "True"]
    /\ IsPrimeFrame

NextIsPrime ==
    \/ EnterIsPrime
    \/ MillerRabinRound
    \/ ReturnTrue

SpecIsPrime == InitIsPrime /\ [][NextIsPrime]_vars

\* C19: is_prime never returns False for a prime, whatever k and whatever
\* bases are drawn; it returns True for 2 and 3 and False for n <= 1 and
\* even n > 2 without a draw; no draw is made from an empty range.
C19_NeverRejectsPrime ==
    /\ prime_call.result = "False" => ~IsPrimeNat(prime_call.n)
    /\ (prime_call.result # "called" /\ prime_call.n \in {2, 3})
          => (prime_call.result = "True" /\ prime_call.drawn = 0)
    /\ (prime_call.result # "called" /\ prime_call.n # 2
          /\ (prime_call.n <= 1 \/ prime_call.n % 2 = 0))
          => (prime_call.result = "False" /\ prime_call.drawn = 0)
    /\ prime_call.result # "ValueError"
    /\ prime_call.drawn > 0 => prime_call.a \in 2..(prime_call.n - 2)

\* is_prime(13, k) has returned True after k >= 2 rounds, the last with a
\* base that needs the squaring loop.
C19_Witness ==
    /\ prime_call.result = "True" /\ prime_call.n = 13
    /\ prime_call.k >= 2 /\ prime_call.drawn = prime_call.k
    /\ ModPow(prime_call.a, OddPart(12), 13) \notin {1, 12}

-----------------------------------------------------------------------------
(* deck_utils.Deck: reset, shuffle and deal on the list self.cards.        *)

\* The list reset builds: for suit in range(4): for rank in range(2, 15).
NewDeck == [i \in 1..(4 * 13) |-> [rank |-> 2 + ((i - 1) % 13), suit |-> (i - 1) \div 13]]

\* The list with entry order[i] at place i.
Permuted(s, order) == [i \in 1..Len(s) |-> s[order[i]]]

\* range(count) is empty for count <= 0.
Passes(count) == IF count > 0 THEN count ELSE 0

\* A deal that returns the last count cards without removing them.
deal_keep(cs, count) ==
    IF Len(cs) < count THEN [raised |-> TRUE, hand |-> <<>>, cards |-> cs]
    ELSE [raised |-> FALSE,
          hand |-> [i \in 1..Passes(count) |-> cs[Len(cs) + 1 - i]],
          cards |-> cs]

\* deal(count) on the list cs: ValueError when fewer than count cards are
\* left, otherwise count times self.cards.pop().
deal(cs, count) ==
    IF Len(cs) < count THEN [raised |-> TRUE, hand |-> <<>>, cards |-> cs]
    ELSE [raised |-> FALSE,
          hand |-> [i \in 1..Passes(count) |-> cs[Len(cs) + 1 - i]],
          cards |-> SubSeq(cs, 1, Len(cs) - Passes(count))]

\* Deck(): __init__ calls reset.
InitDeck ==
    /\ \E order \in Orders(Len(NewDeck)) : cards = Permuted(NewDeck, order)
    /\ dealt = <<>>
    /\ deck_call = [NoDeckCall EXCEPT !.op = "__init__"]
    /\ prime_call = NoPrimeCall
    /\ CipherUnset /\ ParamIdle /\ CodecIdle /\ DeckIdle /\ ServerIdle /\ ShowdownIdle

DeckUtilFrame ==
    UNCHANGED <<cipherVars, paramVars, codecVars, deckVars, prime_call, serverVars, showdownVars>>

\* reset(): 52 new cards, then shuffle.
DeckReset ==
    /\ \E order \in Orders(Len(NewDeck)) : cards' = Permuted(NewDeck, order)
    /\ dealt' = <<>>
    /\ deck_call' = [NoDeckCall EXCEPT !.op = "reset"]
    /\ DeckUtilFrame

\* shuffle(): random.shuffle(self.cards).
DeckShuffle ==
    /\ Len(cards) >= 1
    /\ Len(cards) <= MaxShuffleLen
    /\ \E order \in Orders(Len(cards)) : cards' = Permuted(cards, order)
    /\ deck_call' = [NoDeckCall EXCEPT !.op = "shuffle"]
    /\ UNCHANGED dealt
    /\ DeckUtilFrame

\* deal(count).
DeckDeal ==
    /\ \E count \in (0 - 1)..MaxDeal :
          LET r == deal(cards, count)
          IN  /\ cards' = r.cards
              /\ dealt' = dealt \o r.hand
              /\ deck_call' = [op |-> "deal", count |-> count,
                               raised |-> r.raised, hand |-> r.hand]
    /\ DeckUtilFrame

NextDeck ==
    \/ DeckReset
    \/ DeckShuffle
    \/ DeckDeal

SpecDeck == InitDeck /\ [][NextDeck]_vars

-----------------------------------------------------------------------------
(* The game server of src/server.py and the clients of src/client.py.      *)
(* Every connection is a PokerClient; a message reaches the server through *)
(* one of its send methods, the server handles it in one step, and the     *)
(* messages the handler sends are read by their clients in the same step.  *)
(* Cards are counted, not named: which hands win is an input of end_game.  *)

\* 'chips': 1000
StartChips == 1000

\* if len(game['players']) >= 6
MaxSeats == 6

\* Connections accepted, games created and start_game calls per game that
\* a run is followed for; the amounts typed after bet and raise.
MaxClients == 2
MaxGames == 1
MaxHands == 2
BetAmounts == {0, 500, 1000}

\* The action names send_action is called with; "dance" is no action the
\* server knows.
ActionNames == {"fold", "check", "call", "bet", "raise", "dance"}

\* The error texts with which handle_player_action turns an action down.
Rejections ==
    {"not_found", "not_your_turn", "check_with_bet", "not_enough_chips",
     "not_positive", "bet_exists", "no_bet", "raise_too_small", "unknown_action"}

InSeq(x, s) == \E i \in 1..Len(s) : s[i] = x

Without(s, x) == SelectSeq(s, LAMBDA q : q # x)

\* The value of a new entry of game['player_data'].
NewPlayerData ==
    [chips |-> StartChips, current_bet |-> 0, folded |-> FALSE,
     acted_this_phase |-> FALSE]

\* The dictionary handle_create_game stores; cards are kept as counts
\* (community_cards, deck) and player_cards as the set of its keys.
NewGame(player_id) ==
    [players |-> <<player_id>>,
     status |-> "waiting",
     ready_players |-> {},
     current_player_index |-> 0,
     phase |-> "waiting",
     phase_actions |-> 0,
     community_cards |-> 0,
     pot |-> 0,
     current_bet |-> 0,
     player_data |-> [q \in {player_id} |-> NewPlayerData],
     player_cards |-> {},
     deck |-> 0]

\* [p for p in game['players'] if not game['player_data'][p]['folded']]
active_players(game) ==
    SelectSeq(game.players, LAMBDA q : ~game.player_data[q].folded)

\* for player_id in game['players']: the three per-phase fields cleared.
ResetPlayers(game, fold_too) ==
    [q \in DOMAIN game.player_data |->
        IF InSeq(q, game.players)
        THEN [game.player_data[q] EXCEPT
                 !.current_bet = 0,
                 !.acted_this_phase = FALSE,
                 !.folded = IF fold_too THEN FALSE ELSE @]
        ELSE game.player_data[q]]

\* next_player: the index moves on until it names a player who has not
\* folded or is back where it started; that player is sent your_turn.
next_player(game) ==
    LET n == Len(game.players)
        start_index == game.current_player_index
        At(k) == (start_index + k) % n
        open == {k \in 1..n : ~game.player_data[game.players[At(k) + 1]].folded}
        k == IF open = {} THEN n ELSE CHOOSE j \in open : \A i \in open : j <= i
    IN  [game |-> [game EXCEPT !.current_player_index = At(k)],
         your_turn |-> {game.players[At(k) + 1]}]

\* The place of player q in the list s, counted from zero.
IndexIn(s, q) == (CHOOSE i \in 1..Len(s) : s[i] = q) - 1

\* A share without the chip from the remainder.
WinnerAmount_Floor(split_pot, remainder, i) == split_pot

\* amount = split_pot + (1 if i < remainder else 0)
WinnerAmount(split_pot, remainder, i) ==
    split_pot + (IF i < remainder THEN 1 ELSE 0)

\* Lines 536-550: the game back in 'waiting', chips kept.
ResetGame(game) ==
    [game EXCEPT !.status = "waiting", !.phase = "waiting",
                 !.ready_players = {}, !.pot = 0, !.current_bet = 0,
                 !.community_cards = 0, !.phase_actions = 0,
                 !.player_cards = {}, !.deck = 0,
                 !.player_data = ResetPlayers(game, TRUE)]

\* end_game; best stands for the cards: the winners are the active players
\* in best, or all active players when none of them is in best.  raised
\* tells that an exception left the method (KeyError for an active player
\* without hole cards, ValueError for a hand that is not 7 cards).
end_game(game, best) ==
    LET active == active_players(game)
        holds7(q) == q \in game.player_cards /\ game.community_cards + 2 = 7
    IN  IF Len(active) = 0 THEN [game |-> ResetGame(game), raised |-> FALSE]
        ELSE IF Len(active) = 1
        THEN LET winner == active[1]
                 paid == [game EXCEPT !.player_data[winner].chips = @ + game.pot]
             IN  IF holds7(winner)
                 THEN [game |-> ResetGame(paid), raised |-> FALSE]
                 ELSE [game |-> paid, raised |-> TRUE]
        ELSE IF \E i \in 1..Len(active) : ~holds7(active[i])
        THEN [game |-> game, raised |-> TRUE]
        ELSE LET tied == SelectSeq(active, LAMBDA q : q \in best)
                 winners == IF Len(tied) = 0 THEN active ELSE tied
                 split_pot == game.pot \div Len(winners)
                 remainder == game.pot % Len(winners)
                 paid == [game EXCEPT !.player_data =
                            [q \in DOMAIN game.player_data |->
                                IF InSeq(q, winners)
                                THEN [game.player_data[q] EXCEPT !.chips =
                                        @ + WinnerAmount(split_pot, remainder,
                                                         IndexIn(winners, q))]
                                ELSE game.player_data[q]]]
             IN  [game |-> ResetGame(paid), raised |-> FALSE]

\* advance_game_phase.
advance_game_phase(game, best) ==
    LET cleared == [game EXCEPT !.phase_actions = 0, !.current_bet = 0,
                                !.player_data = ResetPlayers(game, FALSE)]
    IN  IF cleared.phase = "river"
        THEN LET e == end_game(cleared, best)
             IN  [game |-> e.game, your_turn |-> {}, raised |-> e.raised]
        ELSE LET moved ==
                   IF cleared.phase = "preflop"
                   THEN IF cleared.deck >= 3
                        THEN [cleared EXCEPT !.phase = "flop",
                                             !.community_cards = 3,
                                             !.deck = @ - 3]
                        ELSE [cleared EXCEPT !.phase = "flop"]
                   ELSE IF cleared.phase \in {"flop", "turn"}
                   THEN LET next == IF cleared.phase = "flop" THEN "turn" ELSE "river"
                        IN  IF cleared.deck >= 1
                            THEN [cleared EXCEPT !.phase = next,
                                                 !.community_cards = @ + 1,
                                                 !.deck = @ - 1]
                            ELSE [cleared EXCEPT !.phase = next]
                   ELSE cleared
                 n == next_player([moved EXCEPT !.current_player_index = 0])
             IN  [game |-> n.game, your_turn |-> n.your_turn, raised |-> FALSE]

\* start_game: a new deck of 52, two cards to every player, player 0 first.
start_game(game) ==
    LET n == Len(game.players)
        dealt_cards == IF 2 * n <= 52 THEN 2 * n ELSE 52
    IN  [game EXCEPT !.status = "playing", !.phase = "preflop",
                     !.pot = 0, !.current_bet = 0, !.phase_actions = 0,
                     !.deck = 52 - dealt_cards,
                     !.player_data = ResetPlayers(game, TRUE),
                     !.player_cards = {game.players[i] : i \in 1..n},
                     !.community_cards = 0,
                     !.current_player_index = 0]

\* A rejection that still counts the action for the phase.
send_error_counted(game, text) ==
    [game |-> [game EXCEPT !.phase_actions = @ + 1], reply |-> text,
     your_turn |-> {}]

\* await self.send_error(player_id, text); return
send_error(game, text) == [game |-> game, reply |-> text, your_turn |-> {}]

\* Lines 341-363: the action is broadcast, then the phase advances or the
\* turn moves on.
AfterAction(game, best) ==
    IF game.phase_actions >= Len(active_players(game))
    THEN LET a == advance_game_phase(game, best)
         IN  [game |-> a.game,
              reply |-> IF a.raised THEN "exception" ELSE "ok",
              your_turn |-> a.your_turn]
    ELSE LET n == next_player(game)
         IN  [game |-> n.game, reply |-> "ok", your_turn |-> n.your_turn]

\* handle_player_action on an existing game.  A KeyError (no player_data
\* for the sender) or IndexError (current_player_index past the end of the
\* list) is answered by process_message with an error.
handle_player_action(game, player_id, action, amount, best) ==
    IF player_id \notin DOMAIN game.player_data
           \/ game.current_player_index >= Len(game.players)
    THEN [game |-> game, reply |-> "exception", your_turn |-> {}]
    ELSE
    LET player_data == game.player_data[player_id]
        acted(gm) == [gm EXCEPT !.player_data[player_id].acted_this_phase = TRUE,
                                !.phase_actions = @ + 1]
    IN  IF player_id # game.players[game.current_player_index + 1]
        THEN send_error(game, "not_your_turn")
        ELSE IF action = "fold"
        THEN AfterAction(acted([game EXCEPT !.player_data[player_id].folded = TRUE]),
                         best)
        ELSE IF action = "check"
        THEN IF game.current_bet > 0 THEN send_error(game, "check_with_bet")
             ELSE AfterAction(acted(game), best)
        ELSE IF action = "call"
        THEN LET call_amount == game.current_bet - player_data.current_bet
             IN  IF call_amount > player_data.chips
                 THEN send_error(game, "not_enough_chips")
                 ELSE AfterAction(acted(
                        [game EXCEPT !.player_data[player_id].chips = @ - call_amount,
                                     !.player_data[player_id].current_bet = game.current_bet,
                                     !.pot = @ + call_amount]), best)
        ELSE IF action = "bet"
        THEN IF amount <= 0 THEN send_error(game, "not_positive")
             ELSE IF amount > player_data.chips
             THEN send_error(game, "not_enough_chips")
             ELSE IF game.current_bet > 0 THEN send_error(game, "bet_exists")
             ELSE AfterAction(acted(
                    [game EXCEPT !.player_data[player_id].chips = @ - amount,
                                 !.player_data[player_id].current_bet = amount,
                                 !.current_bet = amount,
                                 !.pot = @ + amount]), best)
        ELSE IF action = "raise"
        THEN IF amount <= 0 THEN send_error(game, "not_positive")
             ELSE IF amount > player_data.chips
             THEN send_error(game, "not_enough_chips")
             ELSE IF game.current_bet = 0 THEN send_error(game, "no_bet")
             ELSE IF amount <= game.current_bet
             THEN send_error(game, "raise_too_small")
             ELSE LET total_bet == player_data.current_bet + amount
                  IN  AfterAction(acted(
                        [game EXCEPT !.player_data[player_id].chips = @ - amount,
                                     !.player_data[player_id].current_bet = total_bet,
                                     !.current_bet = total_bet,
                                     !.pot = @ + amount]), best)
        ELSE send_error(game, "unknown_action")

\* A handler that starts the game as soon as one of two players is ready.
handle_player_ready_eager(game, player_id) ==
    IF ~InSeq(player_id, game.players)
    THEN [game |-> game, reply |-> "not_in_game", started |-> FALSE]
    ELSE LET ready == [game EXCEPT !.ready_players = @ \cup {player_id}]
         IN  IF Len(ready.players) >= 2
             THEN [game |-> start_game(ready), reply |-> "ok", started |-> TRUE]
             ELSE [game |-> ready, reply |-> "ok", started |-> FALSE]

\* handle_player_ready on an existing game; started tells that start_game
\* was called.
handle_player_ready(game, player_id) ==
    IF ~InSeq(player_id, game.players)
    THEN [game |-> game, reply |-> "not_in_game", started |-> FALSE]
    ELSE LET ready == [game EXCEPT !.ready_players = @ \cup {player_id}]
         IN  IF /\ Cardinality(ready.ready_players) = Len(ready.players)
                /\ Len(ready.players) >= 2
             THEN [game |-> start_game(ready), reply |-> "ok", started |-> TRUE]
             ELSE [game |-> ready, reply |-> "ok", started |-> FALSE]

\* handle_join_game on an existing game.
handle_join_game(game, player_id) ==
    IF InSeq(player_id, game.players)
    THEN [game |-> game, reply |-> "already_in_game"]
    ELSE IF Len(game.players) >= MaxSeats
    THEN [game |-> game, reply |-> "game_full"]
    ELSE [game |-> [game EXCEPT
                      !.players = Append(@, player_id),
                      !.player_data =
                          [q \in DOMAIN @ \cup {player_id} |->
                              IF q = player_id THEN NewPlayerData ELSE @[q]]],
          reply |-> "ok"]

\* handle_message of every connected client that is sent your_turn.
Deliver(cl, your_turn) ==
    [c \in 1..Len(cl) |->
        IF c \in your_turn /\ c \in players
        THEN [cl[c] EXCEPT !.my_turn = TRUE] ELSE cl[c]]

\* self.games with one entry stored or replaced.
WithGame(gid, game) ==
    [q \in DOMAIN games \cup {gid} |-> IF q = gid THEN game ELSE games[q]]

\* The sets of players whose hands may be the best ones when the hand ends
\* in this step.
BestHands(gid) ==
    IF gid \in DOMAIN games /\ games[gid].phase = "river"
    THEN SUBSET {games[gid].players[i] : i \in 1..Len(games[gid].players)}
    ELSE {{}}

\* The last message handled was no player_action.
NoAction == [player_id |-> 0, type |-> "other", reply |-> ""]

InitServer ==
    /\ players = {}
    /\ games = <<>>
    /\ game_counter = 0
    /\ clients = <<>>
    /\ hands = [gid \in 1..MaxGames |-> 0]
    /\ handled = NoMessage
    /\ CipherUnset /\ ParamIdle /\ CodecIdle /\ DeckIdle /\ UtilIdle
    /\ ShowdownIdle

ServerFrame ==
    UNCHANGED <<cipherVars, paramVars, codecVars, deckVars, utilVars, showdownVars>>

\* handle_client up to the welcome message: a new connection and its id.
HandleClient ==
    /\ Len(clients) < MaxClients
    /\ LET player_id == Len(clients) + 1
       IN  /\ players' = players \cup {player_id}
           /\ clients' = Append(clients, [game_id |-> 0, my_turn |-> FALSE])
           /\ handled' = NoAction
    /\ UNCHANGED <<games, game_counter, hands>>
    /\ ServerFrame

\* create_game of a client and handle_create_game.
CreateGame ==
    /\ game_counter < MaxGames
    /\ \E c \in players :
          /\ game_counter' = game_counter + 1
          /\ games' = WithGame(game_counter + 1, NewGame(c))
          /\ clients' = [clients EXCEPT ![c].game_id = game_counter + 1]
          /\ handled' = NoAction
    /\ UNCHANGED <<players, hands>>
    /\ ServerFrame

\* join_game(game_id) of a client and handle_join_game.
JoinGame ==
    /\ \E c \in players, gid \in 1..MaxGames :
          LET r == IF gid \in DOMAIN games
                   THEN handle_join_game(games[gid], c)
                   ELSE [game |-> <<>>, reply |-> "not_found"]
          IN  /\ games' = IF gid \in DOMAIN games THEN WithGame(gid, r.game)
                          ELSE games
              /\ clients' = [clients EXCEPT ![c].game_id = gid]
              /\ handled' = NoAction
    /\ UNCHANGED <<players, game_counter, hands>>
    /\ ServerFrame

\* send_ready of a client and handle_player_ready, with start_game when
\* the handler calls it.
PlayerReady ==
    /\ \E c \in players :
          /\ clients[c].game_id # 0
          /\ LET gid == clients[c].game_id
                 r == IF gid \in DOMAIN games
                      THEN handle_player_ready(games[gid], c)
                      ELSE [game |-> <<>>, reply |-> "not_found",
                            started |-> FALSE]
             IN  /\ r.started => hands[gid] < MaxHands
                 /\ games' = IF gid \in DOMAIN games THEN WithGame(gid, r.game)
                             ELSE games
                 /\ hands' = IF r.started THEN [hands EXCEPT ![gid] = @ + 1]
                             ELSE hands
                 /\ clients' =
                       IF r.started
                       THEN Deliver([q \in 1..Len(clients) |->
                                        IF InSeq(q, r.game.players)
                                        THEN [clients[q] EXCEPT !.game_id = gid]
                                        ELSE clients[q]],
                                    {r.game.players[1]})
                       ELSE clients
                 /\ handled' = NoAction
    /\ UNCHANGED <<players, game_counter>>
    /\ ServerFrame

\* send_action of a client whose my_turn is set, and handle_player_action.
PlayerAction ==
    /\ \E c \in players, action \in ActionNames :
          /\ clients[c].game_id # 0
          /\ clients[c].my_turn
          /\ \E amount \in (IF action \in {"bet", "raise"} THEN BetAmounts ELSE {0}),
                best \in BestHands(clients[c].game_id) :
                LET gid == clients[c].game_id
                    r == IF gid \in DOMAIN games
                         THEN handle_player_action(games[gid], c, action, amount, best)
                         ELSE [game |-> <<>>, reply |-> "not_found",
                               your_turn |-> {}]
                IN  /\ games' = IF gid \in DOMAIN games THEN WithGame(gid, r.game)
                                ELSE games
                    /\ clients' = Deliver([clients EXCEPT ![c].my_turn = FALSE],
                                          r.your_turn)
                    /\ handled' = [player_id |-> c, type |-> "player_action",
                                   reply |-> r.reply]
    /\ UNCHANGED <<players, game_counter, hands>>
    /\ ServerFrame

\* disconnect_player: the player leaves every game, empty games are deleted.
DisconnectPlayer ==
    /\ \E c \in players :
          LET left(game) == [game EXCEPT !.players = Without(@, c),
                                         !.ready_players = @ \ {c}]
              kept == {gid \in DOMAIN games : Len(left(games[gid]).players) > 0}
          IN  /\ games' = [gid \in kept |-> left(games[gid])]
              /\ players' = players \ {c}
              /\ handled' = NoAction
    /\ UNCHANGED <<game_counter, clients, hands>>
    /\ ServerFrame

NextServer ==
    \/ HandleClient
    \/ CreateGame
    \/ JoinGame
    \/ PlayerReady
    \/ PlayerAction
    \/ DisconnectPlayer

SpecServer == InitServer /\ [][NextServer]_vars

RECURSIVE SumChips(_, _)
SumChips(player_data, ids) ==
    IF ids = {} THEN 0
    ELSE LET q == CHOOSE x \in ids : TRUE
         IN  player_data[q].chips + SumChips(player_data, ids \ {q})

\* The pot and the chips of everybody who has sat down at the game, less
\* the 1000 chips each of them brought.
ChipTotal(game) ==
    game.pot + SumChips(game.player_data, DOMAIN game.player_data)
        - StartChips * Cardinality(DOMAIN game.player_data)

\* C26: no step taken while a game is 'playing' (an action, accepted or
\* rejected, a phase change, a ready message, a join, a disconnect, the
\* end of the hand) changes the game's pot plus its players' chips.
C26_ChipConservation ==
    [][\A gid \in DOMAIN games :
          (games[gid].status = "playing" /\ gid \in DOMAIN games')
              => ChipTotal(games'[gid]) = ChipTotal(games[gid])]_vars

\* C27: an action that handle_player_action turns down (not the sender's
\* turn, or one of the rejections of lines 276-339) leaves the game as it
\* was, in every reachable game and for every sender, action and amount.
C27_RejectionKeepsState ==
    /\ [](\A gid \in DOMAIN games, c \in 1..Len(clients),
             action \in ActionNames, amount \in BetAmounts :
             LET r == handle_player_action(games[gid], c, action, amount, {})
             IN  r.reply \in Rejections => r.game = games[gid])
    /\ [][(handled'.type = "player_action" /\ handled'.reply \in Rejections)
            => games' = games]_vars

\* The server has turned down a raise that was not above the current bet
\* of a hand with chips in the pot.
C27_Witness ==
    /\ handled.type = "player_action" /\ handled.reply = "raise_too_small"
    /\ \E gid \in DOMAIN games :
          /\ games[gid].status = "playing" /\ games[gid].pot > 0
          /\ games[gid].players[games[gid].current_player_index + 1]
                = handled.player_id

\* C28: while a game is 'playing' no step calls start_game for it.
C28_NoRestart ==
    [][\A gid \in DOMAIN games :
          games[gid].status = "playing" => hands'[gid] = hands[gid]]_vars

\* C29: in a 'playing' game current_player_index is an index of the player
\* list and its player has not folded and holds hole cards.
C29_CurrentPlayerValid ==
    \A gid \in DOMAIN games :
       games[gid].status = "playing"
          => /\ games[gid].current_player_index < Len(games[gid].players)
             /\ LET q == games[gid].players[games[gid].current_player_index + 1]
                IN  /\ ~games[gid].player_data[q].folded
                    /\ q \in games[gid].player_cards

\* C30: when the last message handled is an action of the current player
\* of a 'playing' game and the server answered it with an error, that
\* player's client has my_turn set and can send again.
C30_TurnKept ==
    \A gid \in DOMAIN games :
       (/\ games[gid].status = "playing"
        /\ handled.type = "player_action"
        /\ handled.reply \in Rejections
        /\ handled.player_id \in players
        /\ games[gid].current_player_index < Len(games[gid].players)
        /\ games[gid].players[games[gid].current_player_index + 1]
              = handled.player_id)
          => clients[handled.player_id].my_turn

\* The step handles a player_action for game gid and changes its phase.
IsAdvance(gid) ==
    /\ handled'.type = "player_action"
    /\ gid \in DOMAIN games /\ gid \in DOMAIN games'
    /\ games[gid].status = "playing"
    /\ games'[gid].phase # games[gid].phase

\* C31: when an action makes the server change the phase of a game, every
\* other player of the game who has not folded has had an action accepted
\* in the phase that ends.
C31_AllActedBeforeAdvance ==
    [][\A gid \in DOMAIN games :
          IsAdvance(gid)
             => \A i \in 1..Len(games[gid].players) :
                   LET q == games[gid].players[i]
                   IN  (q # handled'.player_id /\ ~games[gid].player_data[q].folded)
                          => games[gid].player_data[q].acted_this_phase]_vars

\* C32: after an action has changed the phase of a game that goes on, the
\* current player is the first player of the list who has not folded.
C32_FirstActiveStarts ==
    [][\A gid \in DOMAIN games :
          (IsAdvance(gid) /\ games'[gid].status = "playing"
              /\ Len(active_players(games'[gid])) > 0)
             => games'[gid].players[games'[gid].current_player_index + 1]
                    = active_players(games'[gid])[1]]_vars

\* C33: a step that makes a game 'playing', or calls start_game for it,
\* leaves it with at least two players, all of them in ready_players; and
\* ready_players never holds anybody who is not in the game.
C33_StartsOnlyWhenAllReady ==
    /\ [](\A gid \in DOMAIN games :
             \A q \in games[gid].ready_players : InSeq(q, games[gid].players))
    /\ [][\A gid \in DOMAIN games' :
             (\/ /\ games'[gid].status = "playing"
                 /\ (gid \in DOMAIN games => games[gid].status # "playing")
              \/ hands'[gid] # hands[gid])
                => /\ Len(games'[gid].players) >= 2
                   /\ \A i \in 1..Len(games'[gid].players) :
                         games'[gid].players[i] \in games'[gid].ready_players]_vars

\* A game of two players has been started once, after its players became
\* ready one by one.
C33_Witness ==
    \E gid \in DOMAIN games :
       /\ games[gid].status = "playing" /\ hands[gid] = 1
       /\ Len(games[gid].players) = 2
       /\ games[gid].ready_players = {games[gid].players[1], games[gid].players[2]}
       /\ games[gid].phase = "preflop" /\ games[gid].phase_actions = 0

-----------------------------------------------------------------------------
(* end_game on its own: a hand that has reached the river with any stakes, *)
(* any players folded and any hands, and the action that ends it.          *)

\* Players at the table and chips one player has put into the pot.
MaxTable == 3
MaxStake == 3

RECURSIVE SumStakes(_, _)
SumStakes(stake, n) == IF n = 0 THEN 0 ELSE stake[n] + SumStakes(stake, n - 1)

\* A game of n players in phase river: player q has paid stake[q] into the
\* pot, the players in out have folded, everybody holds two cards.
RiverGame(n, stake, out) ==
    [players |-> [i \in 1..n |-> i],
     status |-> "playing",
     ready_players |-> 1..n,
     current_player_index |-> 0,
     phase |-> "river",
     phase_actions |-> 0,
     community_cards |-> 5,
     pot |-> SumStakes(stake, n),
     current_bet |-> 0,
     player_data |-> [q \in 1..n |->
                        [chips |-> StartChips - stake[q], current_bet |-> 0,
                         folded |-> q \in out, acted_this_phase |-> FALSE]],
     player_cards |-> 1..n,
     deck |-> 52 - 2 * n - 5]

InitEndGame ==
    /\ \E n \in 1..MaxTable :
          \E stake \in [1..n -> 0..MaxStake], out \in SUBSET (1..n) :
             /\ games = <<RiverGame(n, stake, out)>>
             /\ players = 1..n
             /\ clients = [c \in 1..n |-> [game_id |-> 1, my_turn |-> FALSE]]
    /\ game_counter = 1
    /\ hands = [gid \in 1..MaxGames |-> IF gid = 1 THEN 1 ELSE 0]
    /\ handled = NoAction
    /\ CipherUnset /\ ParamIdle /\ CodecIdle /\ DeckIdle /\ UtilIdle
    /\ ShowdownIdle

\* end_game(game_id) for the hands that make the players in best the best.
EndGame ==
    /\ games[1].status = "playing"
    /\ \E best \in SUBSET players :
          games' = WithGame(1, end_game(games[1], best).game)
    /\ handled' = [player_id |-> 0, type |-> "game_result", reply |-> ""]
    /\ UNCHANGED <<players, game_counter, clients, hands>>
    /\ ServerFrame

NextEndGame == EndGame

SpecEndGame == InitEndGame /\ [][NextEndGame]_vars

\* What end_game has added to the chips of player q.
Added(q) == games'[1].player_data[q].chips - games[1].player_data[q].chips

-----------------------------------------------------------------------------
(* The showdown: HandEvaluator on 7-card hands, the winner loop of         *)
(* PokerServer.end_game and PokerGame.get_winner.  A card is its rank      *)
(* (2..14) and suit (0..3); a hand is a set of cards, because              *)
(* evaluate_hand sorts the list it is given by rank and every check then   *)
(* groups the cards by rank or by suit.                                    *)

Card(rank, suit) == [rank |-> rank, suit |-> suit]

HIGH_CARD == 0
PAIR == 1
TWO_PAIR == 2
THREE_OF_A_KIND == 3
STRAIGHT == 4
FLUSH == 5
FULL_HOUSE == 6
FOUR_OF_A_KIND == 7
STRAIGHT_FLUSH == 8
ROYAL_FLUSH == 9

\* What a _check_ function returns when the combination is not there.
NoScore == [type |-> -1, ranks |-> <<>>]

\* evaluate_hand on a list that does not hold 7 cards.
ValueError == [type |-> -2, ranks |-> <<>>]

Score(kind, rs) == [type |-> kind, ranks |-> rs]

MaxOf(S) == CHOOSE x \in S : \A y \in S : y <= x

\* sorted([card.rank for card in cards], reverse=True)
RECURSIVE SortedRanks(_)
SortedRanks(cs) ==
    IF cs = {} THEN <<>>
    ELSE LET c == CHOOSE c \in cs : \A d \in cs : d.rank <= c.rank
         IN  <<c.rank>> \o SortedRanks(cs \ {c})

\* seq[:k]
FirstOf(seq, k) == SubSeq(seq, 1, IF Len(seq) < k THEN Len(seq) ELSE k)

\* The ranks dictionary of the checks: the cards of one rank.
OfRank(cs, rank) == {c \in cs : c.rank = rank}

\* The suits dictionary of the checks: the cards of one suit.
OfSuit(cs, suit) == {c \in cs : c.suit = suit}

\* The ranks present in cs, each once, highest first.
RECURSIVE UniqueRanks(_)
UniqueRanks(R) ==
    IF R = {} THEN <<>> ELSE <<MaxOf(R)>> \o UniqueRanks(R \ {MaxOf(R)})

\* _find_straight: the ranks of the straight found, highest window first,
\* then A,2,3,4,5 with the 5 in front; <<>> for None.
find_straight(cs) ==
    LET seen_ranks == {c.rank : c \in cs}
        unique_cards == UniqueRanks(seen_ranks)
        starts == {i \in 1..(Len(unique_cards) - 4) :
                      \A j \in 0..4 : unique_cards[i + j] = unique_cards[i] - j}
    IN  IF starts # {}
        THEN LET i == CHOOSE i \in starts : \A k \in starts : i <= k
             IN  SubSeq(unique_cards, i, i + 4)
        ELSE IF {14, 2, 3, 4, 5} \subseteq seen_ranks
        THEN <<5, 4, 3, 2, 14>>
        ELSE <<>>

\* The suits that hold 5 or more of the cards (of 7 cards at most one).
FlushSuits(cs) == {s \in 0..3 : Cardinality(OfSuit(cs, s)) >= 5}

check_straight_flush(cs) ==
    LET found == {s \in FlushSuits(cs) : find_straight(OfSuit(cs, s)) # <<>>}
    IN  IF found = {} THEN NoScore
        ELSE LET straight_flush == find_straight(OfSuit(cs, CHOOSE s \in found : TRUE))
             IN  IF straight_flush[1] = 14 /\ straight_flush[5] = 10
                 THEN Score(ROYAL_FLUSH, <<>>)
                 ELSE Score(STRAIGHT_FLUSH, <<straight_flush[1]>>)

check_four_of_a_kind(cs) ==
    LET fours == {r \in 2..14 : Cardinality(OfRank(cs, r)) = 4}
    IN  IF fours = {} THEN NoScore
        ELSE LET rank == CHOOSE r \in fours : TRUE
                 kicker == MaxOf({c.rank : c \in {d \in cs : d.rank # rank}})
             IN  Score(FOUR_OF_A_KIND, <<rank, kicker>>)

check_full_house(cs) ==
    LET threes == {r \in 2..14 : Cardinality(OfRank(cs, r)) >= 3}
    IN  IF threes = {} THEN NoScore
        ELSE LET three_of_a_kind == MaxOf(threes)
                 pairs == {r \in 2..14 : /\ r # three_of_a_kind
                                         /\ Cardinality(OfRank(cs, r)) >= 2}
             IN  IF pairs = {} THEN NoScore
                 ELSE Score(FULL_HOUSE, <<three_of_a_kind, MaxOf(pairs)>>)

check_flush(cs) ==
    IF FlushSuits(cs) = {} THEN NoScore
    ELSE LET suited_cards == OfSuit(cs, CHOOSE s \in FlushSuits(cs) : TRUE)
         IN  Score(FLUSH, FirstOf(SortedRanks(suited_cards), 5))

check_straight(cs) ==
    LET straight == find_straight(cs)
    IN  IF straight = <<>> THEN NoScore ELSE Score(STRAIGHT, <<straight[1]>>)

check_three_of_a_kind(cs) ==
    LET threes == {r \in 2..14 : Cardinality(OfRank(cs, r)) = 3}
    IN  IF threes = {} THEN NoScore
        ELSE LET rank == MaxOf(threes)
                 kickers == FirstOf(SortedRanks({c \in cs : c.rank # rank}), 2)
             IN  Score(THREE_OF_A_KIND, <<rank>> \o kickers)

check_two_pair(cs) ==
    LET twos == {r \in 2..14 : Cardinality(OfRank(cs, r)) = 2}
    IN  IF Cardinality(twos) < 2 THEN NoScore
        ELSE LET first == MaxOf(twos)
                 second == MaxOf(twos \ {first})
                 kicker == MaxOf({c.rank : c \in {d \in cs : d.rank \notin {first, second}}})
             IN  Score(TWO_PAIR, <<first, second, kicker>>)

check_pair(cs) ==
    LET twos == {r \in 2..14 : Cardinality(OfRank(cs, r)) = 2}
    IN  IF twos = {} THEN NoScore
        ELSE LET rank == MaxOf(twos)
                 kickers == FirstOf(SortedRanks({c \in cs : c.rank # rank}), 3)
             IN  Score(PAIR, <<rank>> \o kickers)

check_high_card(cs) == Score(HIGH_CARD, FirstOf(SortedRanks(cs), 5))

\* The first of the checks, strongest combination first, that finds its
\* combination.
RECURSIVE FirstFound(_)
FirstFound(results) ==
    IF Head(results) # NoScore \/ Len(results) = 1 THEN Head(results)
    ELSE FirstFound(Tail(results))

evaluate_hand(cs) ==
    IF Cardinality(cs) # 7 THEN ValueError
    ELSE FirstFound(<<check_straight_flush(cs), check_four_of_a_kind(cs),
                      check_full_house(cs), check_flush(cs), check_straight(cs),
                      check_three_of_a_kind(cs), check_two_pair(cs),
                      check_pair(cs), check_high_card(cs)>>)

\* The loop over zip(score1[1], score2[1]).
RECURSIVE compare_ranks(_, _)
compare_ranks(r1, r2) ==
    IF r1 = <<>> \/ r2 = <<>> THEN 0
    ELSE IF Head(r1) > Head(r2) THEN 1
    ELSE IF Head(r1) < Head(r2) THEN -1
    ELSE compare_ranks(Tail(r1), Tail(r2))

\* 1: hand1 is stronger, -1: hand2 is stronger, 0: a tie.
compare_hands(hand1, hand2) ==
    LET score1 == evaluate_hand(hand1)
        score2 == evaluate_hand(hand2)
    IN  IF score1.type > score2.type THEN 1
        ELSE IF score1.type < score2.type THEN -1
        ELSE compare_ranks(score1.ranks, score2.ranks)

\* The players of a table that have not folded, in table order.
NotFolded(t) == SelectSeq(t.players, LAMBDA q : ~q.folded)

\* The 7 cards of a player: the two hole cards and the board.
AllCards(t, q) == q.hand \cup t.community_cards

\* The loop body of end_game without the branch of a tie.
keep_or_replace_only(best, player, comparison) ==
    IF comparison = -1 THEN <<player>> ELSE best

\* The loop body of end_game after the first player: comparison is
\* compare_hands of the cards of best[0] and of player.
keep_or_replace(best, player, comparison) ==
    IF comparison = -1 THEN <<player>>
    ELSE IF comparison = 0 THEN Append(best, player)
    ELSE best

\* The loop of end_game over active_players from position i on.
RECURSIVE end_game_loop(_, _, _, _)
end_game_loop(t, active, i, best) ==
    IF i > Len(active) THEN best
    ELSE LET comparison == compare_hands(AllCards(t, best[1]), AllCards(t, active[i]))
         IN  end_game_loop(t, active, i + 1, keep_or_replace(best, active[i], comparison))

Ids(qs) == [i \in 1..Len(qs) |-> qs[i].id]

\* The winners end_game announces.
end_game_winners(t) ==
    LET active == NotFolded(t)
    IN  IF Len(active) = 0 THEN PyList(<<>>)
        ELSE IF Len(active) = 1 THEN PyList(<<active[1].id>>)
        ELSE PyList(Ids(end_game_loop(t, active, 2, <<active[1]>>)))

\* The loop of get_winner over active_players[1:] from position i on: every
\* player is compared with active_players[0].
RECURSIVE get_winner_loop(_, _, _, _)
get_winner_loop(t, active, i, best) ==
    IF i > Len(active) THEN best
    ELSE LET comparison == compare_hands(AllCards(t, active[1]), AllCards(t, active[i]))
         IN  get_winner_loop(t, active, i + 1,
                             IF comparison = -1 THEN <<active[i]>>
                             ELSE IF comparison = 0 THEN Append(best, active[i])
                             ELSE best)

\* PokerGame.get_winner; with nobody left active_players[0] raises.
get_winner(t) ==
    LET active == NotFolded(t)
    IN  IF Len(active) = 1 THEN PyList(<<active[1].id>>)
        ELSE IF Len(active) = 0 THEN PyRaise("IndexError")
        ELSE PyList(Ids(get_winner_loop(t, active, 2, <<active[1]>>)))

\* Players at a showdown.
MaxShowdown == 3

\* Boards and hole cards the showdowns are drawn from: flushes, straights
\* up to the royal flush, the wheel, quads, full houses and ties are among
\* them.
Boards ==
    {{Card(10, 0), Card(11, 0), Card(12, 0), Card(9, 0), Card(7, 2)},
     {Card(9, 0), Card(9, 1), Card(5, 2), Card(5, 3), Card(13, 2)},
     {Card(2, 3), Card(3, 1), Card(4, 2), Card(8, 3), Card(13, 1)}}

HolePool ==
    {Card(14, 0), Card(13, 0), Card(9, 2), Card(5, 0), Card(14, 1),
     Card(8, 0), Card(9, 3)}

HoleCards == {h \in SUBSET HolePool : Cardinality(h) = 2}

InitShowdown ==
    /\ \E n \in 1..MaxShowdown :
          \E hole \in [1..n -> HoleCards], out \in SUBSET (1..n), board \in Boards :
             /\ \A i \in 1..n : \A j \in 1..n : i # j => hole[i] \cap hole[j] = {}
             /\ table = [players |-> [i \in 1..n |->
                                        [id |-> i, hand |-> hole[i], folded |-> i \in out]],
                         community_cards |-> board]
    /\ best_players = <<>>
    /\ winner_call = "none"
    /\ CipherUnset /\ ParamIdle /\ CodecIdle /\ DeckIdle /\ UtilIdle /\ ServerIdle

ShowdownFrame ==
    UNCHANGED <<cipherVars, paramVars, codecVars, deckVars, utilVars, serverVars>>

\* The winner determination of end_game on the table.
ServerShowdown ==
    /\ winner_call = "none"
    /\ best_players' = end_game_winners(table)
    /\ winner_call' = "end_game"
    /\ UNCHANGED table
    /\ ShowdownFrame

\* PokerGame.get_winner on the table.
GetWinner ==
    /\ winner_call = "none"
    /\ best_players' = get_winner(table)
    /\ winner_call' = "get_winner"
    /\ UNCHANGED table
    /\ ShowdownFrame

NextShowdown == ServerShowdown \/ GetWinner

SpecShowdown == InitShowdown /\ [][NextShowdown]_vars

\* The ids of the players who have not folded and whose 7 cards no other
\* player who has not folded beats.
Unbeaten(t) ==
    LET active == NotFolded(t)
    IN  {active[i].id : i \in {i \in 1..Len(active) :
            \A j \in 1..Len(active) :
               j # i => compare_hands(AllCards(t, active[i]), AllCards(t, active[j])) # -1}}

ListedIds(result) == {result.s[i] : i \in 1..Len(result.s)}

\* The table with its players in the order given by perm.
Reseated(t, perm) ==
    [t EXCEPT !.players = [i \in 1..Len(t.players) |-> t.players[perm[i]]]]

Seatings(n) == {perm \in [1..n -> 1..n] : \A i, j \in 1..n : i # j => perm[i] # perm[j]}

\* C35: when end_game determines the winners among two or more players who
\* have not folded, each holding two cards, the winners are, each once, exactly the players whose
\* hand no other such player's hand beats under compare_hands, and every
\* other order of the players gives the same winners.
C35_ServerWinnersUnbeaten ==
    (winner_call = "end_game" /\ Len(NotFolded(table)) >= 2)
       => /\ best_players.t = "list"
          /\ ListedIds(best_players) = Unbeaten(table)
          /\ Len(best_players.s) = Cardinality(Unbeaten(table))
          /\ \A perm \in Seatings(Len(table.players)) :
                ListedIds(end_game_winners(Reseated(table, perm))) = ListedIds(best_players)

\* end_game has found two tied winners among three players at the showdown,
\* and the player it looked at first is not one of them.
C35_Witness ==
    /\ winner_call = "end_game"
    /\ Len(NotFolded(table)) = 3
    /\ Len(best_players.s) = 2
    /\ table.players[1].id \notin ListedIds(best_players)

\* C36: get_winner returns, for any number and order of players of whom at
\* least one has not folded, exactly the players who have not folded and
\* whose hand no other such player's hand beats under compare_hands.
C36_GetWinnerUnbeaten ==
    (winner_call = "get_winner" /\ Len(NotFolded(table)) >= 1)
       => /\ best_players.t = "list"
          /\ ListedIds(best_players) = Unbeaten(table)

-----------------------------------------------------------------------------
(* The phases of a hand on the server.                                     *)

\* The phase that follows a phase of a hand.
NextPhase(phase) ==
    CASE phase = "waiting" -> "preflop"
      [] phase = "preflop" -> "flop"
      [] phase = "flop" -> "turn"
      [] phase = "turn" -> "river"
      [] OTHER -> "waiting"

\* The community cards on the table in a phase.
PhaseCards(phase) ==
    CASE phase = "flop" -> 3
      [] phase = "turn" -> 4
      [] phase = "river" -> 5
      [] OTHER -> 0

\* C37: the phase of a game only changes to the phase that follows it in
\* waiting, preflop, flop, turn, river, waiting; and the community cards
\* are 0 in preflop, 3 in flop, 4 in turn and 5 in river.
C37_PhaseOrder ==
    /\ [](\A gid \in DOMAIN games :
             games[gid].community_cards = PhaseCards(games[gid].phase))
    /\ [][\A gid \in DOMAIN games \cap DOMAIN games' :
             games'[gid].phase # games[gid].phase
                => games'[gid].phase = NextPhase(games[gid].phase)]_vars

====
